---------------------------- MODULE Spec2Model ----------------------------
(***************************************************************************)
(* Model of triqs/utility/pade_approximants.hpp: the gmp_complex value     *)
(* type, the pade_approximant constructor (Vidberg-Serene tableau built    *)
(* with GMP floats under a process-wide default precision) and the         *)
(* continued-fraction evaluator pade_approximant::operator().              *)
(*                                                                         *)
(* Arithmetic is exact rational arithmetic: an mpf_class or a double is a  *)
(* pair <<n, d>> in lowest terms with d > 0, a complex number is a record  *)
(* [re, im] of two such pairs.  A dcomplex that an IEEE division by zero   *)
(* has made infinite or NaN is the record with fin = FALSE.                *)
(***************************************************************************)
EXTENDS Integers, FiniteSets

VARIABLES
  prec,       \* the process-wide GMP default precision (bits)
  prec0,      \* its value before any constructor started (never changes)
  pc,         \* pc[t]: position of thread t
  z_in,       \* z_in[t]: pade_approximant::z_in, a function on 0..N-1
  u_in,       \* u_in[t]: the constructor's argument u_in
  old_prec,   \* old_prec[t]: the constructor's local old_prec
  g,          \* g[t]: the N x N tableau, a function on (0..N-1) \X (0..N-1)
  p,          \* p[t]: outer loop counter
  j,          \* j[t]: inner loop counter
  a,          \* a[t]: pade_approximant::a, the Pade coefficients
  used_prec,  \* used_prec[t]: default precisions seen by the tableau arithmetic
  ndiv,       \* ndiv[t]: number of calls of inverse() made so far
  e_in,       \* e_in[t]: argument of the last operator() call
  res         \* res[t]: value returned by the last operator() call

vars == <<prec, prec0, pc, z_in, u_in, old_prec, g, p, j, a, used_prec, ndiv, e_in, res>>

---------------------------------------------------------------------------
(* Bounds of the model *)

MaxN == 3

Threads == {1, 2}

---------------------------------------------------------------------------
(* Exact rationals *)

Abs(x) == IF x < 0 THEN -x ELSE x

RECURSIVE GCD(_, _)
GCD(x, y) == IF y = 0 THEN x ELSE GCD(y, x % y)

\* the rational n/d in lowest terms, d > 0 (d = 0 never occurs: inverse()
\* throws before dividing by zero, and a division by a zero Bnew is the
\* non-finite value of EvalLoop)
Rat(n, d) ==
  IF d = 0 THEN <<0, 1>>
  ELSE LET k == GCD(Abs(n), Abs(d))
           s == IF d < 0 THEN -1 ELSE 1
       IN  <<(s * n) \div k, (s * d) \div k>>

R0 == <<0, 1>>

\* sums over the least common denominator, products with the common factors
\* cancelled first: the values are those of n1/d1 (+,-,*,/) n2/d2
RAdd(x, y) ==
  LET k == GCD(x[2], y[2])
  IN  Rat(x[1] * (y[2] \div k) + y[1] * (x[2] \div k), (x[2] \div k) * y[2])
RSub(x, y) == RAdd(x, <<-y[1], y[2]>>)
RMul(x, y) ==
  LET k1 == GCD(Abs(x[1]), y[2])
      k2 == GCD(Abs(y[1]), x[2])
  IN  Rat((x[1] \div k1) * (y[1] \div k2), (x[2] \div k2) * (y[2] \div k1))
RDiv(x, y) == RMul(x, IF y[1] < 0 THEN <<-y[2], -y[1]>> ELSE <<y[2], y[1]>>)
RNeg(x)    == <<-x[1], x[2]>>

Cx(re, im) == [re |-> re, im |-> im]
CInt(r, m) == Cx(<<r, 1>>, <<m, 1>>)

---------------------------------------------------------------------------
(* struct gmp_complex *)

MP_0 == CInt(0, 0)
MP_1 == CInt(1, 0)

\* gmp_complex::operator*
gmp_mul(lhs, rhs) ==
  Cx(RSub(RMul(rhs.re, lhs.re), RMul(rhs.im, lhs.im)),
     RAdd(RMul(rhs.re, lhs.im), RMul(rhs.im, lhs.re)))

\* inverse() testing the real part alone instead of d
inverse_TestsRealPart(rhs) ==
  LET d == RAdd(RMul(rhs.re, rhs.re), RMul(rhs.im, rhs.im))
  IN  IF rhs.re = R0 THEN [err |-> TRUE, val |-> MP_0]
      ELSE [err |-> FALSE, val |-> Cx(RDiv(rhs.re, d), RDiv(RNeg(rhs.im), d))]

\* inverse(rhs): err is the TRIQS_RUNTIME_ERROR thrown when d == 0
inverse(rhs) ==
  LET d == RAdd(RMul(rhs.re, rhs.re), RMul(rhs.im, rhs.im))
  IN  IF d = R0 THEN [err |-> TRUE, val |-> MP_0]
      ELSE [err |-> FALSE, val |-> Cx(RDiv(rhs.re, d), RDiv(RNeg(rhs.im), d))]

\* gmp_complex::operator/ : (*this) * inverse(rhs); the exception propagates
gmp_div(lhs, rhs) ==
  LET r == inverse(rhs)
  IN  IF r.err THEN r ELSE [err |-> FALSE, val |-> gmp_mul(lhs, r.val)]

\* gmp_complex::operator+ and operator-
gmp_add(lhs, rhs) == Cx(RAdd(rhs.re, lhs.re), RAdd(rhs.im, lhs.im))
gmp_sub(lhs, rhs) == Cx(RSub(lhs.re, rhs.re), RSub(lhs.im, rhs.im))

\* gmp_complex::norm
norm(c) == RAdd(RMul(c.re, c.re), RMul(c.im, c.im))

\* gmp_complex::operator=(std::complex<double>): a double is held exactly
\* by an mpf_class of 256 bits
from_dcomplex(c) == Cx(c.re, c.im)

\* dcomplex(real(gj).get_d(), imag(gj).get_d()); exact in this model, where
\* doubles and GMP floats are both exact rationals
to_dcomplex(c) == Cx(c.re, c.im)

---------------------------------------------------------------------------
(* The truncation test of the constructor: g(p-1,p-1).norm() < 1.0e-20 *)

ThresholdExp == 20

\* <<x \div 10^k, whether x is no multiple of 10^k>>
RECURSIVE DivPow10(_, _)
DivPow10(x, k) ==
  IF k = 0 THEN <<x, FALSE>>
  ELSE LET r == DivPow10(x, k - 1)
       IN  <<r[1] \div 10, r[2] \/ (r[1] % 10 # 0)>>

\* n/d < 10^-k, i.e. d / 10^k > n, for n >= 0, d > 0
BelowPow10(q, k) ==
  LET r == DivPow10(q[2], k)
  IN  r[1] > q[1] \/ (r[1] = q[1] /\ r[2])

BelowThreshold(q) == BelowPow10(q, ThresholdExp)

\* the test at the head of the outer loop body
Truncates(gt, pp) == BelowThreshold(norm(gt[<<pp - 1, pp - 1>>]))

---------------------------------------------------------------------------
(* std::complex<double>, as used by operator() *)

d_add(x, y) == Cx(RAdd(x.re, y.re), RAdd(x.im, y.im))
d_sub(x, y) == Cx(RSub(x.re, y.re), RSub(x.im, y.im))
d_mul(x, y) ==
  Cx(RSub(RMul(x.re, y.re), RMul(x.im, y.im)),
     RAdd(RMul(x.re, y.im), RMul(x.im, y.re)))
\* x / y for y # 0
d_div(x, y) ==
  LET d == RAdd(RMul(y.re, y.re), RMul(y.im, y.im))
  IN  Cx(RDiv(RAdd(RMul(x.re, y.re), RMul(x.im, y.im)), d),
         RDiv(RSub(RMul(x.im, y.re), RMul(x.re, y.im)), d))

D_0 == CInt(0, 0)
D_1 == CInt(1, 0)

\* a value with an infinite or NaN component
NonFinite == [fin |-> FALSE, val |-> D_0]
Finite(v) == [fin |-> TRUE, val |-> v]

\* the loop of operator() with B1 left without its division by Bnew
RECURSIVE EvalLoop_StaleB1(_, _, _, _, _, _, _)
EvalLoop_StaleB1(at, zt, e, i, A1, A2, B1) ==
  IF i > Cardinality(DOMAIN at) - 2 THEN Finite(A2)
  ELSE LET c    == d_mul(d_sub(e, zt[i]), at[i + 1])
           Anew == d_add(A2, d_mul(c, A1))
           Bnew == d_add(D_1, d_mul(c, B1))
       IN  IF Bnew = D_0 THEN NonFinite
           ELSE EvalLoop_StaleB1(at, zt, e, i + 1,
                                 d_div(A2, Bnew), d_div(Anew, Bnew), B1)

\* the loop of operator(), from iteration i on.  When Bnew is zero the three
\* divisions are IEEE divisions by zero: A1, A2 and B1 become infinite or NaN
\* and stay so to the end of the loop.
RECURSIVE EvalLoop(_, _, _, _, _, _, _)
EvalLoop(at, zt, e, i, A1, A2, B1) ==
  IF i > Cardinality(DOMAIN at) - 2 THEN Finite(A2)
  ELSE LET c    == d_mul(d_sub(e, zt[i]), at[i + 1])
           Anew == d_add(A2, d_mul(c, A1))
           Bnew == d_add(D_1, d_mul(c, B1))
       IN  IF Bnew = D_0 THEN NonFinite
           ELSE EvalLoop(at, zt, e, i + 1,
                         d_div(A2, Bnew), d_div(Anew, Bnew), d_div(D_1, Bnew))

\* pade_approximant::operator()(e)
Eval(at, zt, e) == EvalLoop(at, zt, e, 0, D_0, at[0], D_1)

---------------------------------------------------------------------------
(* Inputs *)

GMP_default_prec == 256

\* the default precision at entry: GMP's own default, 64 bits
InitPrecs == {64}

PointSet == {CInt(0, 0), CInt(1, 0), CInt(2, 0), CInt(0, 1)}
ValueSet == {CInt(0, 0), CInt(1, 0), CInt(2, 0), CInt(0, 1)}

Vec3(x, y, w) == [k \in 0..2 |-> IF k = 0 THEN x ELSE IF k = 1 THEN y ELSE w]
Const(n, c)   == [k \in 0..(n - 1) |-> c]

\* the two scenarios of the specification's section 8
SquareData == [z |-> Vec3(CInt(1, 0), CInt(2, 0), CInt(3, 0)),
               u |-> Vec3(CInt(1, 0), CInt(4, 0), CInt(9, 0))]
ConstData  == [z |-> [k \in 0..3 |-> CInt(k + 1, 0)], u |-> Const(4, CInt(5, 0))]

Grid == UNION {[z : [0..(n - 1) -> PointSet], u : [0..(n - 1) -> ValueSet]] : n \in 1..MaxN}

Inputs == Grid \cup {SquareData, ConstData}

QuerySet == PointSet \cup {CInt(3, 0), CInt(4, 0), Cx(<<5, 2>>, <<0, 1>>)}

Empty == [k \in {} |-> MP_0]

Len(t) == Cardinality(DOMAIN z_in[t])

---------------------------------------------------------------------------
(* The constructor, one step per thread position *)

\* unsigned long old_prec = mpf_get_default_prec();
GetPrec(t) ==
  /\ pc[t] = "ctor"
  /\ old_prec' = [old_prec EXCEPT ![t] = prec]
  /\ pc' = [pc EXCEPT ![t] = "set_prec"]
  /\ UNCHANGED <<prec, prec0, z_in, u_in, g, p, j, a, used_prec, ndiv, e_in, res>>

\* a constructor that leaves the default precision as it found it
SetPrec_Skip(t) ==
  /\ pc[t] = "set_prec"
  /\ pc' = [pc EXCEPT ![t] = "init_g"]
  /\ UNCHANGED <<prec, prec0, z_in, u_in, old_prec, g, p, j, a, used_prec, ndiv, e_in, res>>

\* mpf_set_default_prec(GMP_default_prec);
SetPrec(t) ==
  /\ pc[t] = "set_prec"
  /\ prec' = GMP_default_prec
  /\ pc' = [pc EXCEPT ![t] = "init_g"]
  /\ UNCHANGED <<prec0, z_in, u_in, old_prec, g, p, j, a, used_prec, ndiv, e_in, res>>

\* g() = MP_0; g(0, f) = u_in(f)
InitialTableau(zt, ut) ==
  [c \in (DOMAIN zt) \X (DOMAIN zt) |->
     IF c[1] = 0 THEN from_dcomplex(ut[c[2]]) ELSE MP_0]

InitTableau(t) ==
  /\ pc[t] = "init_g"
  /\ g' = [g EXCEPT ![t] = InitialTableau(z_in[t], u_in[t])]
  /\ p' = [p EXCEPT ![t] = 1]
  /\ pc' = [pc EXCEPT ![t] = "row"]
  /\ UNCHANGED <<prec, prec0, z_in, u_in, old_prec, j, a, used_prec, ndiv, e_in, res>>

\* an outer loop without the truncation test
Row_NoBreak(t) ==
  /\ pc[t] = "row"
  /\ IF p[t] < Len(t)
     THEN /\ j' = [j EXCEPT ![t] = p[t]]
          /\ pc' = [pc EXCEPT ![t] = "cell"]
     ELSE /\ j' = j
          /\ pc' = [pc EXCEPT ![t] = "extract"]
  /\ UNCHANGED <<prec, prec0, z_in, u_in, old_prec, g, p, a, used_prec, ndiv, e_in, res>>

\* head of the outer loop: p < N, and the truncation test
Row(t) ==
  /\ pc[t] = "row"
  /\ IF p[t] < Len(t) /\ ~Truncates(g[t], p[t])
     THEN /\ j' = [j EXCEPT ![t] = p[t]]
          /\ pc' = [pc EXCEPT ![t] = "cell"]
     ELSE /\ j' = j
          /\ pc' = [pc EXCEPT ![t] = "extract"]
  /\ UNCHANGED <<prec, prec0, z_in, u_in, old_prec, g, p, a, used_prec, ndiv, e_in, res>>

\* an inner loop body whose x lacks the "- MP_1"
CellValue_NoSubtract(gt, zt, pp, jj) ==
  LET x1 == gmp_div(gt[<<pp - 1, pp - 1>>], gt[<<pp - 1, jj>>])
  IN  IF x1.err THEN [err |-> TRUE, val |-> MP_0, ninv |-> 1]
      ELSE LET y  == from_dcomplex(d_sub(zt[jj], zt[pp - 1]))
               x2 == gmp_div(x1.val, y)
           IN  [err |-> x2.err, val |-> x2.val, ninv |-> 2]

\* the body of the inner loop: ninv counts the calls of inverse()
CellValue(gt, zt, pp, jj) ==
  LET x1 == gmp_div(gt[<<pp - 1, pp - 1>>], gt[<<pp - 1, jj>>])
  IN  IF x1.err THEN [err |-> TRUE, val |-> MP_0, ninv |-> 1]
      ELSE LET x  == gmp_sub(x1.val, MP_1)
               y  == from_dcomplex(d_sub(zt[jj], zt[pp - 1]))
               x2 == gmp_div(x, y)
           IN  [err |-> x2.err, val |-> x2.val, ninv |-> 2]

\* the inner loop's next column, or the outer loop's next row
Cell(t) ==
  /\ pc[t] = "cell"
  /\ LET r == CellValue(g[t], z_in[t], p[t], j[t])
     IN  /\ ndiv' = [ndiv EXCEPT ![t] = @ + r.ninv]
         /\ IF r.err
            THEN /\ pc' = [pc EXCEPT ![t] = "error"]
                 /\ UNCHANGED <<g, p, j>>
            ELSE /\ g' = [g EXCEPT ![t][<<p[t], j[t]>>] = r.val]
                 /\ IF j[t] + 1 < Len(t)
                    THEN /\ j' = [j EXCEPT ![t] = @ + 1]
                         /\ UNCHANGED <<p, pc>>
                    ELSE /\ p' = [p EXCEPT ![t] = @ + 1]
                         /\ pc' = [pc EXCEPT ![t] = "row"]
                         /\ j' = j
  /\ used_prec' = [used_prec EXCEPT ![t] = @ \cup {prec}]
  /\ UNCHANGED <<prec, prec0, z_in, u_in, old_prec, a, e_in, res>>

\* a(j) = dcomplex(real(gj).get_d(), imag(gj).get_d())
Diagonal(gt, n) == [k \in 0..(n - 1) |-> to_dcomplex(gt[<<k, k>>])]

Extract(t) ==
  /\ pc[t] = "extract"
  /\ a' = [a EXCEPT ![t] = Diagonal(g[t], Len(t))]
  /\ pc' = [pc EXCEPT ![t] = "restore"]
  /\ UNCHANGED <<prec, prec0, z_in, u_in, old_prec, g, p, j, used_prec, ndiv, e_in, res>>

\* mpf_set_default_prec(old_prec);
Restore(t) ==
  /\ pc[t] = "restore"
  /\ prec' = old_prec[t]
  /\ pc' = [pc EXCEPT ![t] = "built"]
  /\ UNCHANGED <<prec0, z_in, u_in, old_prec, g, p, j, a, used_prec, ndiv, e_in, res>>

\* a call of operator() on the built approximant (a const method: calls do
\* not affect one another, and a behaviour makes one)
Evaluate(t) ==
  /\ pc[t] = "built"
  /\ \E e \in QuerySet :
       /\ e_in' = [e_in EXCEPT ![t] = e]
       /\ res' = [res EXCEPT ![t] = Eval(a[t], z_in[t], e)]
  /\ pc' = [pc EXCEPT ![t] = "evaluated"]
  /\ UNCHANGED <<prec, prec0, z_in, u_in, old_prec, g, p, j, a, used_prec, ndiv>>

Next ==
  \E t \in Threads :
    \/ GetPrec(t)
    \/ SetPrec(t)
    \/ InitTableau(t)
    \/ Row(t)
    \/ Cell(t)
    \/ Extract(t)
    \/ Restore(t)
    \/ Evaluate(t)

\* every thread but 1 is idle: one constructor call, then calls of operator()
Init ==
  /\ prec \in InitPrecs
  /\ prec0 = prec
  /\ pc = [t \in Threads |-> IF t = 1 THEN "ctor" ELSE "idle"]
  /\ \E in \in Inputs :
       /\ z_in = [t \in Threads |-> IF t = 1 THEN in.z ELSE Empty]
       /\ u_in = [t \in Threads |-> IF t = 1 THEN in.u ELSE Empty]
  /\ old_prec = [t \in Threads |-> 0]
  /\ g = [t \in Threads |-> Empty]
  /\ p = [t \in Threads |-> 0]
  /\ j = [t \in Threads |-> 0]
  /\ a = [t \in Threads |-> Empty]
  /\ used_prec = [t \in Threads |-> {}]
  /\ ndiv = [t \in Threads |-> 0]
  /\ e_in = [t \in Threads |-> D_0]
  /\ res = [t \in Threads |-> Finite(D_0)]

Spec == Init /\ [][Next]_vars

---------------------------------------------------------------------------
(* Two constructors on two threads *)

TwoPoints == [z |-> [k \in 0..1 |-> CInt(k, 0)], u |-> [k \in 0..1 |-> CInt(k + 1, 0)]]
SamePoint == [z |-> Const(2, CInt(1, 0)), u |-> Const(2, CInt(1, 0))]

ConcInputs == {TwoPoints, SamePoint, SquareData}

\* the process may also have set the default precision to 256 before
InitConc ==
  /\ prec \in InitPrecs \cup {GMP_default_prec}
  /\ prec0 = prec
  /\ pc = [t \in Threads |-> "ctor"]
  /\ \E in \in [Threads -> ConcInputs] :
       /\ z_in = [t \in Threads |-> in[t].z]
       /\ u_in = [t \in Threads |-> in[t].u]
  /\ old_prec = [t \in Threads |-> 0]
  /\ g = [t \in Threads |-> Empty]
  /\ p = [t \in Threads |-> 0]
  /\ j = [t \in Threads |-> 0]
  /\ a = [t \in Threads |-> Empty]
  /\ used_prec = [t \in Threads |-> {}]
  /\ ndiv = [t \in Threads |-> 0]
  /\ e_in = [t \in Threads |-> D_0]
  /\ res = [t \in Threads |-> Finite(D_0)]

SpecConc == InitConc /\ [][Next]_vars

---------------------------------------------------------------------------
(* Vocabulary of the properties *)

Returned(t)  == pc[t] \in {"built", "evaluated"}
PostLoop(t)  == pc[t] \in {"extract", "restore", "built", "evaluated"}
Building(t)  == pc[t] \in {"init_g", "row", "cell", "extract", "restore"}
Distinct(zt) == \A k1, k2 \in DOMAIN zt : k1 # k2 => zt[k1] # zt[k2]

\* no step before q has truncated
NoTruncationUpTo(gt, q) == \A r \in 1..q : ~Truncates(gt, r)

\* the points and the values given to thread t
Given(t, in) == z_in[t] = in.z /\ u_in[t] = in.u

\* |v - w| < 10^-6
Within6(v, w) == BelowPow10(norm(d_sub(v, w)), 12)

\* the tail 1 + (e-z[i]) a[i+1] / (1 + (e-z[i+1]) a[i+2] / (1 + ...)) of the
\* nested fraction, evaluated from the innermost term outwards; fin = FALSE
\* when a denominator is zero
RECURSIVE NestedTail(_, _, _, _)
NestedTail(at, zt, e, i) ==
  IF i >= Cardinality(DOMAIN at) - 1 THEN Finite(D_1)
  ELSE LET t == NestedTail(at, zt, e, i + 1)
       IN  IF ~t.fin \/ t.val = D_0 THEN NonFinite
           ELSE Finite(d_add(D_1, d_div(d_mul(d_sub(e, zt[i]), at[i + 1]), t.val)))

\* a0 + (e-z0) a1 / (1 + (e-z1) a2 / (1 + ...))
NestedSum(at, zt, e) ==
  IF Cardinality(DOMAIN at) = 1 THEN Finite(at[0])
  ELSE LET t == NestedTail(at, zt, e, 1)
       IN  IF ~t.fin \/ t.val = D_0 THEN NonFinite
           ELSE Finite(d_add(at[0], d_div(d_mul(d_sub(e, zt[0]), at[1]), t.val)))

\* a0 / (1 + (e-z0) a1 / (1 + (e-z1) a2 / (1 + ...)))
NestedQuotient(at, zt, e) ==
  LET t == NestedTail(at, zt, e, 0)
  IN  IF ~t.fin \/ t.val = D_0 THEN NonFinite ELSE Finite(d_div(at[0], t.val))

---------------------------------------------------------------------------
(* The claims *)

\* C1 (as claimed): whenever the constructor has returned an approximant for
\* pairwise distinct points, operator() at each point z[k] returns u[k].
C1_ExactInterpolation ==
  \A t \in Threads :
    pc[t] = "evaluated" /\ Distinct(z_in[t]) =>
      \A k \in DOMAIN z_in[t] :
        e_in[t] = z_in[t][k] => res[t] = Finite(u_in[t][k])

\* C2 (as claimed): once the constructor has left, by return or by the error
\* of inverse(), the default precision is the one it had at entry; it differs
\* from it, and is then 256, only while the tableau is being built.
C2_PrecisionScoped ==
  /\ pc[1] \in {"built", "evaluated", "error"} => prec = prec0
  /\ prec # prec0 => prec = GMP_default_prec /\ Building(1)

\* C3 (as claimed): from z = {1,2,3}, u = {1,4,9} the constructor succeeds and
\* operator()(2.5) is within 1e-6 of 6.25, operator()(4) within 1e-6 of 16.
C3_SquareReproduced ==
  \A t \in Threads :
    Given(t, SquareData) =>
      /\ pc[t] # "error"
      /\ pc[t] = "evaluated" /\ e_in[t] = Cx(<<5, 2>>, R0) =>
           res[t].fin /\ Within6(res[t].val, Cx(<<25, 4>>, R0))
      /\ pc[t] = "evaluated" /\ e_in[t] = CInt(4, 0) =>
           res[t].fin /\ Within6(res[t].val, CInt(16, 0))

\* C3 (amended): from z = {1,2,3}, u = {1,4,9} the constructor succeeds with
\* a = {1, -3/4, 11/16}; operator() returns 1, 4, 9 at 1, 2, 3, but 43/7 at
\* 2.5 and 19 at 4.
C3_SquareActual ==
  \A t \in Threads :
    Given(t, SquareData) =>
      /\ pc[t] # "error"
      /\ Returned(t) =>
           a[t] = Vec3(CInt(1, 0), Cx(<<-3, 4>>, R0), Cx(<<11, 16>>, R0))
      /\ pc[t] = "evaluated" =>
           /\ e_in[t] = Cx(<<5, 2>>, R0) => res[t] = Finite(Cx(<<43, 7>>, R0))
           /\ e_in[t] = CInt(4, 0) => res[t] = Finite(CInt(19, 0))
           /\ \A k \in 0..2 : e_in[t] = CInt(k + 1, 0) =>
                res[t] = Finite(CInt((k + 1) * (k + 1), 0))

C3_Witness ==
  Given(1, SquareData) /\ pc[1] = "evaluated" /\ e_in[1] = CInt(4, 0)

C5_DuplicateRejected ==
  \A t \in Threads : ~Distinct(z_in[t]) => ~Returned(t)

\* C6 (as claimed): when no division is by zero, operator()(e) is the nested
\* fraction a0 + (e-z0) a1 / (1 + (e-z1) a2 / (1 + ...)).
C6_NestedSumForm ==
  \A t \in Threads :
    pc[t] = "evaluated" /\ res[t].fin /\ NestedSum(a[t], z_in[t], e_in[t]).fin
      => res[t] = NestedSum(a[t], z_in[t], e_in[t])

\* C6 (amended): when no division is by zero, operator()(e) is the nested
\* fraction a0 / (1 + (e-z0) a1 / (1 + (e-z1) a2 / (1 + ...))).
C6_NestedQuotientForm ==
  \A t \in Threads :
    pc[t] = "evaluated" /\ res[t].fin /\ NestedQuotient(a[t], z_in[t], e_in[t]).fin
      => res[t] = NestedQuotient(a[t], z_in[t], e_in[t])

C6_Witness ==
  /\ pc[1] = "evaluated"
  /\ Len(1) = 3
  /\ \A k \in 0..2 : a[1][k] # D_0 /\ e_in[1] # z_in[1][k]
  /\ res[1].fin
  /\ res[1] = NestedQuotient(a[1], z_in[1], e_in[1])
  /\ res[1] # NestedSum(a[1], z_in[1], e_in[1])

\* C7: with two constructors on two threads, tableau arithmetic of a thread
\* runs at a default precision other than 256 only after the other thread has
\* restored a precision other than 256; and when both have returned with the
\* default precision changed from its value before either started, it is the
\* 256 that one of them read as its old precision.
C7_RaceThroughRestore ==
  /\ \A t \in Threads :
       used_prec[t] \in SUBSET {GMP_default_prec}
       \/ \E o \in Threads \ {t} : Returned(o) /\ old_prec[o] # GMP_default_prec
  /\ (\A t \in Threads : Returned(t)) /\ prec # prec0 =>
       /\ prec = GMP_default_prec
       /\ \E o \in Threads : old_prec[o] = GMP_default_prec

\* the race has happened: a thread computed at another precision than 256,
\* both constructors returned, and the default precision is not what it was
C7_Witness ==
  /\ \A t \in Threads : Returned(t)
  /\ \E t \in Threads : ~(used_prec[t] \in SUBSET {GMP_default_prec})
  /\ prec # prec0

\* number of inverse() calls made by rows 1..q-1 of a tableau of size n
RECURSIVE CallsBefore(_, _)
CallsBefore(n, q) == IF q <= 1 THEN 0 ELSE CallsBefore(n, q - 1) + 2 * (n - (q - 1))

\* C8: when the loop has ended and q is the first step whose diagonal entry
\* g[q-1][q-1] has squared magnitude below 1e-20, the loop ended at step q
\* with no division made from that step on and no error, rows q.. of the
\* tableau are still zero, and the coefficients are a[k] = 0 for k >= q and
\* the computed diagonal for k < q.
C8_Truncation ==
  \A t \in Threads :
    PostLoop(t) =>
      \A q \in 1..(Len(t) - 1) :
        Truncates(g[t], q) /\ NoTruncationUpTo(g[t], q - 1) =>
          /\ p[t] = q
          /\ ndiv[t] = CallsBefore(Len(t), q)
          /\ \A r \in q..(Len(t) - 1), k \in 0..(Len(t) - 1) : g[t][<<r, k>>] = MP_0
          /\ Returned(t) =>
               \A k \in 0..(Len(t) - 1) :
                 a[t][k] = IF k >= q THEN D_0 ELSE g[t][<<k, k>>]

C8_Witness ==
  /\ Returned(1)
  /\ Len(1) = 3
  /\ p[1] = 2
  /\ Truncates(g[1], 2)
  /\ ndiv[1] = 4
  /\ a[1][0] # D_0
  /\ a[1][2] = D_0

\* row q is reached before any truncation and has a column whose entry of
\* row q-1 has zero squared magnitude or whose point equals z[q-1]
SingularRow(gt, zt, q) ==
  /\ NoTruncationUpTo(gt, q)
  /\ \E k \in q..(Cardinality(DOMAIN zt) - 1) :
       norm(gt[<<q - 1, k>>]) = R0 \/ zt[k] = zt[q - 1]

\* C9: the constructor ends in the error exactly when some row is singular
\* in the sense above; otherwise it returns N coefficients.
C9_SingularTableau ==
  \A t \in Threads :
    /\ pc[t] = "error" => \E q \in 1..(Len(t) - 1) : SingularRow(g[t], z_in[t], q)
    /\ PostLoop(t) => \A q \in 1..(Len(t) - 1) : ~SingularRow(g[t], z_in[t], q)
    /\ Returned(t) => DOMAIN a[t] = 0..(Len(t) - 1)

C9_Witness ==
  /\ pc[1] = "error"
  /\ Distinct(z_in[1])
  /\ p[1] = 2
  /\ norm(g[1][<<1, 2>>]) = R0

\* C10 (as claimed): no call of operator() carries out a division by a zero
\* Bnew (in this model: no call returns the infinite or NaN value that those
\* divisions produce).
C10_NoZeroDivisor ==
  \A t \in Threads : pc[t] = "evaluated" => res[t].fin

====
